---- MODULE Spec2Model ----
(***************************************************************************)
(* The storefront widgets of makematchaco: the click-to-expand accordion   *)
(* and the card carousel.  A page is modelled with one widget on it:       *)
(* Spec and LiveSpec are the accordion, SpecStray is the accordion whose   *)
(* video element also delivers events outside a transition, SpecPair is    *)
(* its two classes side by side, SpecCards is the carousel (described      *)
(* where it is defined).                                                   *)
(*                                                                         *)
(* Two classes define the custom element matcha-scroll-accordion; each     *)
(* registers itself only if the tag is still free, so a page runs one of   *)
(* them.  Both are modelled:                                               *)
(*   - the video accordion (crossfade plus transition video), whose        *)
(*     variables and operators carry the names of its private fields and   *)
(*     methods;                                                            *)
(*   - the plain accordion (crossfade only), whose names are the same in   *)
(*     the source and carry the prefix "plain" here.                       *)
(*                                                                         *)
(* A handler is one action.  The private methods a handler calls are       *)
(* operators from an element record to an element record, so that a        *)
(* handler is the composition of the calls it makes, in the order it       *)
(* makes them.                                                             *)
(*                                                                         *)
(* The browser is the environment.  What the model takes from the HTML     *)
(* standard about the <video> element:                                     *)
(*   - play() returns a promise that is rejected at once when playback is  *)
(*     not allowed, and otherwise stays pending until playback starts;     *)
(*   - pause() followed by load() rejects a play promise that is still     *)
(*     pending, and load() drops the element's queued events;              *)
(*   - "ended" and "error" are delivered only for a loaded source;         *)
(*   - a promise reaction is a microtask: it runs after the handler that   *)
(*     settled the promise returns and before the next event;              *)
(*   - removing a media element from the document pauses it.               *)
(***************************************************************************)
EXTENDS Integers, Sequences, FiniteSets, TLC

\* Number of accordion rows (and of media items, paired 1:1 with the rows).
NumRows == 3

Rows == 0 .. (NumRows - 1)

\* window.innerWidth < 768 is the narrow (mobile) viewport.
Breakpoint == 768

Widths == {Breakpoint - 1, Breakpoint}

\* The index no row has: the collapsed accordion, the cleared pending target.
NoIndex == -1

\* null / undefined: a lookup that finds nothing, a removed src attribute.
Null == -1

\* The empty string, which is falsy like null.
EmptyString == 0

\* data-product-id of row r, and the URL row r's map gives for product p.
ProductIdOf(r) == 10 + r

VideoUrl(r, p) == 100 * (r + 1) + p

VARIABLES
    \* ---- markup (fixed after Init) ----
    transitionsAttr,     \* row -> dataset.transitions payload
    productIdAttr,       \* row -> dataset.productId (Null when missing)
    hasVideo,            \* a .scroll-accordion__video element exists
    registered,          \* the class customElements.define registered for the
                         \* tag: "video" (with transition video) or "plain"
    \* ---- window ----
    innerWidth,
    \* ---- video accordion ----
    connected,           \* the element is in the document
    aborted,             \* #controller.signal.aborted
    listening,           \* its listeners are registered and alive
    activeIndex,         \* #activeIndex
    isTransitioning,     \* #isTransitioning
    pendingTargetIndex,  \* #pendingTargetIndex
    rowActive,           \* row -> has class scroll-accordion__row--active
    ariaExpanded,        \* row -> header aria-expanded
    mediaActive,         \* row -> media item has class ...__media-item--active
    styleTransitionNone, \* media items carry style.transition = 'none'
    rafPending,          \* a requestAnimationFrame callback is scheduled
    videoPlaying,        \* video has class scroll-accordion__video--playing
    videoSrc,            \* video.src (Null when removed)
    videoPaused,         \* video.paused
    playState,           \* "none" | "pending" (play promise pending) | "playing"
    playTarget,          \* toIndex captured by the pending promise's catch
    microtasks,          \* queued catch callbacks: their captured toIndex
    lastEvent,           \* history: the handler that ran last
    \* ---- plain accordion ----
    plainConnected,
    plainAborted,
    plainListening,
    plainActiveIndex,
    plainRowActive,
    plainAriaExpanded,
    plainMediaActive,
    \* ---- card carousel: markup and window ----
    cardsClass,          \* the class registered for ingredient-cards:
                         \* "viewportStep" (arrows scroll by the track width,
                         \* arrow visibility is toggled) or "cardStep"
    cardCount,           \* number of .ingredient-card elements
    prefersReducedMotion,\* matchMedia('(prefers-reduced-motion: reduce)')
    \* ---- card carousel: element ----
    cardsConnected,      \* the element is in the document
    observer,            \* #observer: "null" | "observing"
    cardVisible,         \* card -> has class ingredient-card--visible
    animateClass,        \* element has class ingredient-cards--animate
    isDragging,          \* #isDragging
    startX,              \* #startX
    scrollStart,         \* #scrollStart
    arrowScrolling,      \* #arrowScrolling
    prevHidden,          \* prevBtn has class ingredient-cards__arrow--hidden
    nextHidden,          \* nextBtn has class ingredient-cards__arrow--hidden
    \* ---- card carousel: track ----
    scrollLeft,          \* track.scrollLeft
    smoothTarget,        \* where the smooth scroll in flight is heading
    scrollPending,       \* a scroll event is queued for the track
    scrollEndDue,        \* the offset moved since the last scrollend event
    cursor,              \* track.style.cursor
    scrollSnapType,      \* track.style.scrollSnapType
    pointerCaptured,     \* the track holds the pointer capture
    dragOrigin           \* history: cursor X and offset at the last
                         \* primary pointer-down

markupVars == <<transitionsAttr, productIdAttr, hasVideo, registered>>

elementVars == <<activeIndex, isTransitioning, pendingTargetIndex, rowActive,
                 ariaExpanded, mediaActive, styleTransitionNone, rafPending,
                 videoPlaying, videoSrc, videoPaused, playState, playTarget,
                 microtasks>>

lifeVars == <<connected, aborted, listening>>

plainVars == <<plainConnected, plainAborted, plainListening, plainActiveIndex,
               plainRowActive, plainAriaExpanded, plainMediaActive>>

cardsMarkupVars == <<cardsClass, cardCount, prefersReducedMotion>>

cardsElementVars == <<observer, cardVisible, animateClass, isDragging, startX,
                      scrollStart, arrowScrolling, prevHidden, nextHidden,
                      scrollLeft, smoothTarget, scrollPending, scrollEndDue,
                      cursor, scrollSnapType, pointerCaptured>>

cardsVars == <<cardsMarkupVars, cardsConnected, cardsElementVars, dragOrigin>>

accordionVars == <<markupVars, innerWidth, lifeVars, elementVars, lastEvent,
                   plainVars>>

vars == <<accordionVars, cardsVars>>

-----------------------------------------------------------------------------
(* Markup: the per-row data attributes.                                    *)

AbsentPayload == [kind |-> "absent", map |-> <<>>]

MalformedPayload == [kind |-> "malformed", map |-> <<>>]

\* A well-formed JSON object: product id -> URL, for the rows in `targets`.
JsonPayload(r, targets) ==
    [kind |-> "json",
     map  |-> [p \in {ProductIdOf(t) : t \in targets} |-> VideoUrl(r, p)]]

\* A well-formed JSON object whose URLs are all empty strings.
EmptyUrlPayload(r) ==
    [kind |-> "json",
     map  |-> [p \in {ProductIdOf(t) : t \in Rows \ {r}} |-> EmptyString]]

Quirks == {"none", "absent", "malformed", "missingEntry", "emptyUrl", "noProductId"}

\* The markup in which every row maps every other row's product to a video,
\* except that row q carries quirk k.
LayoutTransitions(q, k) ==
    [r \in Rows |->
        IF r # q \/ k \in {"none", "noProductId"}
            THEN JsonPayload(r, Rows \ {r})
        ELSE IF k = "absent" THEN AbsentPayload
        ELSE IF k = "malformed" THEN MalformedPayload
        ELSE IF k = "missingEntry" THEN JsonPayload(r, {(r + 1) % NumRows})
        ELSE EmptyUrlPayload(r)]

LayoutProductIds(q, k) ==
    [r \in Rows |-> IF r = q /\ k = "noProductId" THEN Null ELSE ProductIdOf(r)]

-----------------------------------------------------------------------------
(* The video accordion as a record, and back.                              *)

Self ==
    [activeIndex |-> activeIndex, isTransitioning |-> isTransitioning,
     pendingTargetIndex |-> pendingTargetIndex, rowActive |-> rowActive,
     ariaExpanded |-> ariaExpanded, mediaActive |-> mediaActive,
     styleTransitionNone |-> styleTransitionNone, rafPending |-> rafPending,
     videoPlaying |-> videoPlaying, videoSrc |-> videoSrc,
     videoPaused |-> videoPaused, playState |-> playState,
     playTarget |-> playTarget, microtasks |-> microtasks]

Become(s) ==
    /\ activeIndex' = s.activeIndex
    /\ isTransitioning' = s.isTransitioning
    /\ pendingTargetIndex' = s.pendingTargetIndex
    /\ rowActive' = s.rowActive
    /\ ariaExpanded' = s.ariaExpanded
    /\ mediaActive' = s.mediaActive
    /\ styleTransitionNone' = s.styleTransitionNone
    /\ rafPending' = s.rafPending
    /\ videoPlaying' = s.videoPlaying
    /\ videoSrc' = s.videoSrc
    /\ videoPaused' = s.videoPaused
    /\ playState' = s.playState
    /\ playTarget' = s.playTarget
    /\ microtasks' = s.microtasks

Only(index) == [i \in Rows |-> i = index]

None == [i \in Rows |-> FALSE]

-----------------------------------------------------------------------------
(* The <video> element, as far as the accordion drives it.                 *)

\* A play promise that is still pending is rejected; its catch callback is
\* queued as a microtask.
rejectPendingPlay(s) ==
    IF s.playState = "pending"
        THEN [s EXCEPT !.microtasks = Append(@, s.playTarget),
                       !.playState = "none",
                       !.playTarget = NoIndex]
        ELSE s

\* video.pause()
videoPause(s) ==
    [rejectPendingPlay(s) EXCEPT !.videoPaused = TRUE,
                                 !.playState = "none",
                                 !.playTarget = NoIndex]

\* Mutant: hides the video layer and leaves its source loaded.
videoResetKeepsSource(s) ==
    [videoPause(s) EXCEPT !.videoPlaying = FALSE]

\* classList.remove(playing); pause(); removeAttribute('src'); load()
videoReset(s) ==
    [videoPause(s) EXCEPT !.videoPlaying = FALSE, !.videoSrc = Null]

\* video.play(): `allowed` is the browser's decision.  Refused, the promise
\* is returned rejected and the element stays paused.
videoPlay(s, toIndex, allowed) ==
    IF allowed
        THEN [s EXCEPT !.videoPaused = FALSE,
                       !.playState = "pending",
                       !.playTarget = toIndex]
        ELSE [s EXCEPT !.microtasks = Append(@, toIndex)]

-----------------------------------------------------------------------------
(* The private methods of the video accordion.                             *)

\* Mutant: resets the video and leaves #isTransitioning set.
cancelTransitionKeepsFlag(s) ==
    LET v == IF hasVideo THEN videoReset(s) ELSE s
    IN  [v EXCEPT !.pendingTargetIndex = NoIndex]

cancelTransition(s) ==
    LET v == IF hasVideo THEN videoReset(s) ELSE s
    IN  [v EXCEPT !.isTransitioning = FALSE,
                  !.pendingTargetIndex = NoIndex]

\* Mutant: marks the new row without unmarking the others.
setActiveRowContentKeepsOthers(s, index) ==
    [s EXCEPT !.activeIndex = index,
              !.rowActive = [i \in Rows |-> s.rowActive[i] \/ i = index],
              !.ariaExpanded = [i \in Rows |-> s.ariaExpanded[i] \/ i = index]]

setActiveRowContent(s, index) ==
    [s EXCEPT !.activeIndex = index,
              !.rowActive = Only(index),
              !.ariaExpanded = Only(index)]

setActiveRow(s, index) ==
    [setActiveRowContent(s, index) EXCEPT !.mediaActive = Only(index)]

\* Mutant: collapses the rows and leaves the media items alone.
collapseAllRowsOnly(s) ==
    [s EXCEPT !.rowActive = None,
              !.ariaExpanded = None]

collapseAll(s) ==
    [s EXCEPT !.rowActive = None,
              !.ariaExpanded = None,
              !.mediaActive = None]

\* JSON.parse of a data-transitions payload.
JSONParse(payload) ==
    IF payload.kind = "json"
        THEN [threw |-> FALSE, value |-> payload.map]
        ELSE [threw |-> TRUE, value |-> <<>>]

\* transitions[key] || null
LookupOrNull(transitions, key) ==
    IF key \in DOMAIN transitions /\ transitions[key] # EmptyString
        THEN transitions[key]
        ELSE Null

\* Mutant: looks the source row up in the target row's map.
getTransitionVideoFromTargetMap(fromIndex, toIndex) ==
    IF fromIndex \notin Rows \/ toIndex \notin Rows THEN Null
    ELSE IF transitionsAttr[toIndex].kind = "absent" THEN Null
    ELSE IF productIdAttr[fromIndex] = Null THEN Null
    ELSE LET parsed == JSONParse(transitionsAttr[toIndex])
         IN  IF parsed.threw THEN Null
             ELSE LookupOrNull(parsed.value, productIdAttr[fromIndex])

getTransitionVideo(fromIndex, toIndex) ==
    IF fromIndex \notin Rows \/ toIndex \notin Rows THEN Null
    ELSE IF transitionsAttr[fromIndex].kind = "absent" THEN Null
    ELSE IF productIdAttr[toIndex] = Null THEN Null
    ELSE LET parsed == JSONParse(transitionsAttr[fromIndex])
         IN  IF parsed.threw THEN Null
             ELSE LookupOrNull(parsed.value, productIdAttr[toIndex])

playTransition(s, fromIndex, toIndex, videoUrl, allowed) ==
    IF ~hasVideo THEN setActiveRow(s, toIndex)
    ELSE LET t == [s EXCEPT !.isTransitioning = TRUE,
                            !.pendingTargetIndex = toIndex]
             c == setActiveRowContent(t, toIndex)
             \* video.src = url starts a load of its own
             v == [rejectPendingPlay(c) EXCEPT !.videoSrc = videoUrl,
                                               !.videoPlaying = TRUE]
         IN  videoPlay(v, toIndex, allowed)

\* Mutant: shows the target image and leaves the video layer as it is.
finishTransitionKeepsVideo(s, targetIndex) ==
    LET m == [s EXCEPT !.styleTransitionNone = TRUE,
                       !.mediaActive = Only(targetIndex)]
    IN  [m EXCEPT !.rafPending = TRUE,
                  !.isTransitioning = FALSE,
                  !.pendingTargetIndex = NoIndex,
                  !.activeIndex = targetIndex]

finishTransition(s, targetIndex) ==
    LET m == [s EXCEPT !.styleTransitionNone = TRUE,
                       !.mediaActive = Only(targetIndex)]
        v == IF hasVideo THEN videoReset(m) ELSE m
    IN  [v EXCEPT !.rafPending = TRUE,
                  !.isTransitioning = FALSE,
                  !.pendingTargetIndex = NoIndex,
                  !.activeIndex = targetIndex]

\* Mutant: the collapse branch does not cancel the transition in flight.
clickOutcomeCollapseWithoutCancel(s, targetIndex, width, allowed) ==
    IF targetIndex = s.activeIndex /\ width < Breakpoint
        THEN [collapseAll(s) EXCEPT !.activeIndex = NoIndex]
    ELSE LET c == IF s.isTransitioning THEN cancelTransition(s) ELSE s
             fromIndex == c.activeIndex
             videoUrl == getTransitionVideo(fromIndex, targetIndex)
         IN  IF targetIndex = c.activeIndex THEN c
             ELSE IF videoUrl # Null
                 THEN playTransition(c, fromIndex, targetIndex, videoUrl, allowed)
                 ELSE setActiveRow(c, targetIndex)

\* The body of #handleClick for the header of row targetIndex.
clickOutcome(s, targetIndex, width, allowed) ==
    IF targetIndex = s.activeIndex /\ width < Breakpoint
        THEN [collapseAll(cancelTransition(s)) EXCEPT !.activeIndex = NoIndex]
    ELSE LET c == IF s.isTransitioning THEN cancelTransition(s) ELSE s
             fromIndex == c.activeIndex
             videoUrl == getTransitionVideo(fromIndex, targetIndex)
         IN  IF targetIndex = c.activeIndex THEN c
             ELSE IF videoUrl # Null
                 THEN playTransition(c, fromIndex, targetIndex, videoUrl, allowed)
                 ELSE setActiveRow(c, targetIndex)

\* Mutant: reads the pending target after the cancel has cleared it.
errorOutcomeReadsClearedTarget(s) ==
    IF ~s.isTransitioning THEN s
    ELSE LET c == cancelTransition(s)
         IN  setActiveRow(c, c.pendingTargetIndex)

\* The body of #handleVideoError.
errorOutcome(s) ==
    IF ~s.isTransitioning THEN s
    ELSE setActiveRow(cancelTransition(s), s.pendingTargetIndex)

\* The catch callback of #playTransition, with its captured toIndex.
catchOutcome(s, toIndex) == setActiveRow(cancelTransition(s), toIndex)

-----------------------------------------------------------------------------
(* Events of the video accordion.                                          *)

Event(type, index) ==
    [type |-> type, index |-> index, from |-> activeIndex,
     transitioning |-> isTransitioning]

Idle == microtasks = <<>>

\* The three handlers both classes have are written in two parts: what the
\* handler does to its own element, and the rest of the page left alone.
connectedStep ==
    /\ Idle /\ ~connected
    /\ connected' = TRUE
    /\ listening' = ~aborted
    /\ Become(setActiveRow(Self, 0))
    /\ lastEvent' = Event("connected", 0)
    /\ UNCHANGED aborted

connectedCallback ==
    /\ registered = "video"
    /\ connectedStep
    /\ UNCHANGED <<cardsVars, markupVars, innerWidth, plainVars>>

disconnectedStep ==
    /\ Idle /\ connected
    /\ connected' = FALSE
    /\ aborted' = TRUE
    /\ listening' = FALSE
    /\ Become(IF hasVideo THEN videoPause(Self) ELSE Self)
    /\ lastEvent' = Event("disconnected", NoIndex)

disconnectedCallback ==
    /\ disconnectedStep
    /\ UNCHANGED <<cardsVars, markupVars, innerWidth, plainVars>>

clickStep(targetIndex) ==
    /\ Idle /\ listening
    /\ \E allowed \in BOOLEAN :
          Become(clickOutcome(Self, targetIndex, innerWidth, allowed))
    /\ lastEvent' = Event("click", targetIndex)
    /\ UNCHANGED lifeVars

handleClick(targetIndex) ==
    /\ clickStep(targetIndex)
    /\ UNCHANGED <<cardsVars, markupVars, innerWidth, plainVars>>

handleVideoEnded ==
    /\ Idle /\ listening /\ hasVideo
    /\ playState = "playing"
    /\ Become(finishTransition(Self, pendingTargetIndex))
    /\ lastEvent' = Event("ended", pendingTargetIndex)
    /\ UNCHANGED <<cardsVars, markupVars, innerWidth, lifeVars, plainVars>>

handleVideoError ==
    /\ Idle /\ listening /\ hasVideo
    /\ videoSrc # Null
    /\ Become(errorOutcome(Self))
    /\ lastEvent' = Event("error", pendingTargetIndex)
    /\ UNCHANGED <<cardsVars, markupVars, innerWidth, lifeVars, plainVars>>

\* The catch callback at the head of the microtask queue runs.
playRejected ==
    /\ microtasks # <<>>
    /\ Become(catchOutcome([Self EXCEPT !.microtasks = Tail(@)], Head(microtasks)))
    /\ lastEvent' = Event("catch", Head(microtasks))
    /\ UNCHANGED <<cardsVars, markupVars, innerWidth, lifeVars, plainVars>>

\* Playback starts: the pending play promise is fulfilled.
playStarted ==
    /\ Idle /\ playState = "pending"
    /\ playState' = "playing"
    /\ UNCHANGED <<cardsVars, markupVars, innerWidth, lifeVars, activeIndex, isTransitioning,
                   pendingTargetIndex, rowActive, ariaExpanded, mediaActive,
                   styleTransitionNone, rafPending, videoPlaying, videoSrc,
                   videoPaused, playTarget, microtasks, lastEvent, plainVars>>

\* The requestAnimationFrame callback of #finishTransition.
animationFrame ==
    /\ Idle /\ rafPending
    /\ rafPending' = FALSE
    /\ styleTransitionNone' = FALSE
    /\ UNCHANGED <<cardsVars, markupVars, innerWidth, lifeVars, activeIndex, isTransitioning,
                   pendingTargetIndex, rowActive, ariaExpanded, mediaActive,
                   videoPlaying, videoSrc, videoPaused, playState, playTarget,
                   microtasks, lastEvent, plainVars>>

\* An ended event reaches the listener while no transition is in flight: an
\* event another script dispatches on the video element, or one an engine
\* delivers although load() has been called since it was queued.  The
\* handler is #handleVideoEnded, which has no guard.
strayVideoEnded ==
    /\ Idle /\ listening /\ hasVideo
    /\ ~isTransitioning
    /\ Become(finishTransition(Self, pendingTargetIndex))
    /\ lastEvent' = Event("strayEnded", pendingTargetIndex)
    /\ UNCHANGED <<cardsVars, markupVars, innerWidth, lifeVars, plainVars>>

\* The same for an error event; the handler is #handleVideoError.
strayVideoError ==
    /\ Idle /\ listening /\ hasVideo
    /\ ~isTransitioning
    /\ Become(errorOutcome(Self))
    /\ lastEvent' = Event("strayError", pendingTargetIndex)
    /\ UNCHANGED <<cardsVars, markupVars, innerWidth, lifeVars, plainVars>>

\* The viewport crosses the breakpoint.
resize ==
    /\ Idle
    /\ innerWidth' \in Widths \ {innerWidth}
    /\ UNCHANGED <<cardsVars, markupVars, lifeVars, elementVars, lastEvent, plainVars>>

-----------------------------------------------------------------------------
(* The plain accordion.                                                    *)

plainSetActiveRow(index) ==
    /\ plainActiveIndex' = index
    /\ plainRowActive' = Only(index)
    /\ plainAriaExpanded' = Only(index)
    /\ plainMediaActive' = Only(index)

plainCollapseAll ==
    /\ plainRowActive' = None
    /\ plainAriaExpanded' = None
    /\ plainMediaActive' = None

plainConnectedStep ==
    /\ Idle /\ ~plainConnected
    /\ plainConnected' = TRUE
    /\ plainListening' = ~plainAborted
    /\ plainSetActiveRow(0)
    /\ UNCHANGED plainAborted

plainConnectedCallback ==
    /\ registered = "plain"
    /\ plainConnectedStep
    /\ UNCHANGED <<cardsVars, markupVars, innerWidth, lifeVars, elementVars, lastEvent>>

plainDisconnectedStep ==
    /\ Idle /\ plainConnected
    /\ plainConnected' = FALSE
    /\ plainAborted' = TRUE
    /\ plainListening' = FALSE
    /\ UNCHANGED <<plainActiveIndex, plainRowActive, plainAriaExpanded,
                   plainMediaActive>>

plainDisconnectedCallback ==
    /\ plainDisconnectedStep
    /\ UNCHANGED <<cardsVars, markupVars, innerWidth, lifeVars, elementVars, lastEvent>>

\* Mutant: a click on the active row of a narrow viewport keeps it open.
plainClickStepNeverCollapses(index) ==
    /\ Idle /\ plainListening
    /\ plainSetActiveRow(index)
    /\ UNCHANGED <<plainConnected, plainAborted, plainListening>>

plainClickStep(index) ==
    /\ Idle /\ plainListening
    /\ IF index = plainActiveIndex /\ innerWidth < Breakpoint
           THEN plainCollapseAll /\ plainActiveIndex' = NoIndex
           ELSE plainSetActiveRow(index)
    /\ UNCHANGED <<plainConnected, plainAborted, plainListening>>

plainHandleClick(index) ==
    /\ plainClickStep(index)
    /\ UNCHANGED <<cardsVars, markupVars, innerWidth, lifeVars, elementVars, lastEvent>>

-----------------------------------------------------------------------------
(* Both accordion classes side by side, each in a document of its own,     *)
(* given the same markup, the same viewport and the same events.           *)

pairConnectedCallback ==
    /\ connectedStep /\ plainConnectedStep
    /\ UNCHANGED <<cardsVars, markupVars, innerWidth>>

pairDisconnectedCallback ==
    /\ disconnectedStep /\ plainDisconnectedStep
    /\ UNCHANGED <<cardsVars, markupVars, innerWidth>>

pairHandleClick(index) ==
    /\ clickStep(index) /\ plainClickStep(index)
    /\ UNCHANGED <<cardsVars, markupVars, innerWidth>>

-----------------------------------------------------------------------------
(* The card carousel (ingredient-cards).                                   *)
(*                                                                         *)
(* Two classes define the tag; a page runs one of them.  They share the    *)
(* reveal and the drag; "viewportStep" scrolls by the track width and      *)
(* toggles the arrows, "cardStep" scrolls by one card and has no arrow     *)
(* visibility.  Lengths are in CSS pixels.                                 *)
(*                                                                         *)
(* What the model takes from the CSSOM View standard about the track:      *)
(*   - assigning scrollLeft clamps the value to the scrollable range,      *)
(*     aborts a smooth scroll in flight and scrolls at once;               *)
(*   - scrollBy with behavior 'smooth' starts a smooth scroll to the       *)
(*     clamped target, and starts nothing when the target is the current   *)
(*     offset;                                                             *)
(*   - a scroll event follows every change of the offset, and a scrollend  *)
(*     event follows once the offset has changed and scrolling has         *)
(*     stopped; neither is fired when the offset did not change.           *)
(***************************************************************************)

\* track.clientWidth and track.scrollWidth.
ClientWidth == 2

ScrollWidth == 6

MaxScrollLeft == ScrollWidth - ClientWidth

Offsets == 0 .. MaxScrollLeft

\* event.clientX of the pointer events.
MaxClientX == 2

ClientXs == 0 .. MaxClientX

\* event.button: 0 is the primary button.
PrimaryButton == 0

Buttons == {PrimaryButton, 2}

\* Upper bound on the number of cards in the markup.
NumCards == 2

\* Longest list of entries one observer callback receives.
MaxEntries == 2

\* card.offsetWidth and the track's column gap; the distance used when the
\* track has no card.
CardOffsetWidth == 1

ColumnGap == 0

FallbackDistance == 300

\* No smooth scroll is in flight.
NoTarget == -1

CardsSelf ==
    [observer |-> observer, cardVisible |-> cardVisible,
     animateClass |-> animateClass, isDragging |-> isDragging,
     startX |-> startX, scrollStart |-> scrollStart,
     arrowScrolling |-> arrowScrolling, prevHidden |-> prevHidden,
     nextHidden |-> nextHidden, scrollLeft |-> scrollLeft,
     smoothTarget |-> smoothTarget, scrollPending |-> scrollPending,
     scrollEndDue |-> scrollEndDue, cursor |-> cursor,
     scrollSnapType |-> scrollSnapType, pointerCaptured |-> pointerCaptured]

CardsBecome(c) ==
    /\ observer' = c.observer
    /\ cardVisible' = c.cardVisible
    /\ animateClass' = c.animateClass
    /\ isDragging' = c.isDragging
    /\ startX' = c.startX
    /\ scrollStart' = c.scrollStart
    /\ arrowScrolling' = c.arrowScrolling
    /\ prevHidden' = c.prevHidden
    /\ nextHidden' = c.nextHidden
    /\ scrollLeft' = c.scrollLeft
    /\ smoothTarget' = c.smoothTarget
    /\ scrollPending' = c.scrollPending
    /\ scrollEndDue' = c.scrollEndDue
    /\ cursor' = c.cursor
    /\ scrollSnapType' = c.scrollSnapType
    /\ pointerCaptured' = c.pointerCaptured

\* ---- the track, as the browser implements it ----

ClampOffset(value) ==
    IF value < 0 THEN 0
    ELSE IF value > MaxScrollLeft THEN MaxScrollLeft
    ELSE value

\* track.scrollLeft = value
setScrollLeft(c, value) ==
    LET moved == ClampOffset(value) # c.scrollLeft
    IN  [c EXCEPT !.scrollLeft = ClampOffset(value),
                  !.smoothTarget = NoTarget,
                  !.scrollPending = @ \/ moved,
                  !.scrollEndDue = @ \/ moved]

\* track.scrollBy({ left: delta, behavior: 'smooth' })
scrollBySmooth(c, delta) ==
    LET target == ClampOffset(c.scrollLeft + delta)
    IN  [c EXCEPT !.smoothTarget =
                      IF target = c.scrollLeft THEN NoTarget ELSE target]

\* ---- methods ----

AllCards(count) == [i \in 1 .. count |-> TRUE]

NoCards(count) == [i \in 1 .. count |-> FALSE]

initObserver(c, count, reducedMotion) ==
    IF count = 0 THEN c
    ELSE IF reducedMotion THEN [c EXCEPT !.cardVisible = AllCards(count)]
    ELSE [c EXCEPT !.animateClass = TRUE, !.observer = "observing"]

\* Mutant: reveals the first card only.
intersectionOutcomeRevealsFirstCard(c, entries) ==
    IF \E i \in DOMAIN entries : entries[i]
        THEN [c EXCEPT !.cardVisible = [k \in DOMAIN @ |-> k = 1],
                       !.observer = "null"]
        ELSE c

\* The IntersectionObserver callback, given its entries' isIntersecting.
intersectionOutcome(c, entries) ==
    IF \E i \in DOMAIN entries : entries[i]
        THEN [c EXCEPT !.cardVisible = [k \in DOMAIN @ |-> TRUE],
                       !.observer = "null"]
        ELSE c

setArrowsForPosition(c, position) ==
    [c EXCEPT !.prevHidden = position <= 1,
              !.nextHidden = position + ClientWidth >= ScrollWidth - 1]

initArrows(c) == setArrowsForPosition(c, c.scrollLeft)

pointerDownOutcome(c, button, clientX) ==
    IF button # PrimaryButton THEN c
    ELSE [c EXCEPT !.isDragging = TRUE,
                   !.startX = clientX,
                   !.scrollStart = c.scrollLeft,
                   !.pointerCaptured = TRUE,
                   !.cursor = "grabbing",
                   !.scrollSnapType = "none"]

\* Mutant: drags the track the wrong way.
pointerMoveOutcomeAddsDelta(c, clientX) ==
    IF ~c.isDragging THEN c
    ELSE setScrollLeft(c, c.scrollStart + (clientX - c.startX))

pointerMoveOutcome(c, clientX) ==
    IF ~c.isDragging THEN c
    ELSE setScrollLeft(c, c.scrollStart - (clientX - c.startX))

pointerUpOutcome(c) ==
    IF ~c.isDragging THEN c
    ELSE [c EXCEPT !.isDragging = FALSE,
                   !.pointerCaptured = FALSE,
                   !.cursor = "",
                   !.scrollSnapType = ""]

scrollOutcome(c) ==
    IF c.arrowScrolling THEN c
    ELSE setArrowsForPosition(c, c.scrollLeft)

scrollEndOutcome(c) ==
    setArrowsForPosition([c EXCEPT !.arrowScrolling = FALSE], c.scrollLeft)

Max(a, b) == IF a > b THEN a ELSE b

Min(a, b) == IF a < b THEN a ELSE b

getCardScrollDistance(count) ==
    IF count = 0 THEN FallbackDistance ELSE CardOffsetWidth + ColumnGap

scrollPrevOutcome(c, class, count) ==
    IF class = "viewportStep"
        THEN scrollBySmooth(
                 setArrowsForPosition([c EXCEPT !.arrowScrolling = TRUE],
                                      Max(0, c.scrollLeft - ClientWidth)),
                 0 - ClientWidth)
        ELSE scrollBySmooth(c, 0 - getCardScrollDistance(count))

scrollNextOutcome(c, class, count) ==
    IF class = "viewportStep"
        THEN scrollBySmooth(
                 setArrowsForPosition([c EXCEPT !.arrowScrolling = TRUE],
                                      Min(ScrollWidth - ClientWidth,
                                          c.scrollLeft + ClientWidth)),
                 ClientWidth)
        ELSE scrollBySmooth(c, getCardScrollDistance(count))

\* ---- events ----

\* The scroll and scrollend listeners exist in the viewportStep class only.
ScrollListening == cardsConnected /\ cardsClass = "viewportStep"

cardsConnectedCallback ==
    /\ ~cardsConnected
    /\ cardsConnected' = TRUE
    /\ CardsBecome(
          LET observed == initObserver(CardsSelf, cardCount, prefersReducedMotion)
          IN  IF cardsClass = "viewportStep" THEN initArrows(observed)
              ELSE observed)
    /\ UNCHANGED <<accordionVars, cardsMarkupVars, dragOrigin>>

cardsDisconnectedCallback ==
    /\ cardsConnected
    /\ cardsConnected' = FALSE
    /\ CardsBecome([CardsSelf EXCEPT !.observer = "null"])
    /\ UNCHANGED <<accordionVars, cardsMarkupVars, dragOrigin>>

\* The observer reports: at its first callback and at every later crossing
\* of the threshold.
observerCallback(entries) ==
    /\ cardsConnected /\ observer = "observing"
    /\ CardsBecome(intersectionOutcome(CardsSelf, entries))
    /\ UNCHANGED <<accordionVars, cardsMarkupVars, cardsConnected, dragOrigin>>

onPointerDown(button, clientX) ==
    /\ cardsConnected
    /\ CardsBecome(pointerDownOutcome(CardsSelf, button, clientX))
    /\ dragOrigin' = IF button = PrimaryButton
                        THEN [x |-> clientX, offset |-> scrollLeft]
                        ELSE dragOrigin
    /\ UNCHANGED <<accordionVars, cardsMarkupVars, cardsConnected>>

onPointerMove(clientX) ==
    /\ cardsConnected
    /\ CardsBecome(pointerMoveOutcome(CardsSelf, clientX))
    /\ UNCHANGED <<accordionVars, cardsMarkupVars, cardsConnected, dragOrigin>>

\* pointerup and pointercancel share the handler.
onPointerUp ==
    /\ cardsConnected
    /\ CardsBecome(pointerUpOutcome(CardsSelf))
    /\ UNCHANGED <<accordionVars, cardsMarkupVars, cardsConnected, dragOrigin>>

\* The queued scroll event is dispatched.
onScroll ==
    /\ scrollPending
    /\ CardsBecome(
          LET c == [CardsSelf EXCEPT !.scrollPending = FALSE]
          IN  IF ScrollListening THEN scrollOutcome(c) ELSE c)
    /\ UNCHANGED <<accordionVars, cardsMarkupVars, cardsConnected, dragOrigin>>

\* Scrolling has stopped: the scrollend event is dispatched.
onScrollEnd ==
    /\ scrollEndDue /\ ~scrollPending /\ smoothTarget = NoTarget
    /\ CardsBecome(
          LET c == [CardsSelf EXCEPT !.scrollEndDue = FALSE]
          IN  IF ScrollListening THEN scrollEndOutcome(c) ELSE c)
    /\ UNCHANGED <<accordionVars, cardsMarkupVars, cardsConnected, dragOrigin>>

scrollPrev ==
    /\ cardsConnected
    /\ CardsBecome(scrollPrevOutcome(CardsSelf, cardsClass, cardCount))
    /\ UNCHANGED <<accordionVars, cardsMarkupVars, cardsConnected, dragOrigin>>

scrollNext ==
    /\ cardsConnected
    /\ CardsBecome(scrollNextOutcome(CardsSelf, cardsClass, cardCount))
    /\ UNCHANGED <<accordionVars, cardsMarkupVars, cardsConnected, dragOrigin>>

\* The smooth scroll in flight advances by one pixel.
smoothScrollStep ==
    /\ smoothTarget # NoTarget
    /\ LET position == IF smoothTarget > scrollLeft THEN scrollLeft + 1
                       ELSE scrollLeft - 1
       IN  CardsBecome([CardsSelf EXCEPT
               !.scrollLeft = position,
               !.smoothTarget = IF position = smoothTarget THEN NoTarget ELSE @,
               !.scrollPending = TRUE,
               !.scrollEndDue = TRUE])
    /\ UNCHANGED <<accordionVars, cardsMarkupVars, cardsConnected, dragOrigin>>

\* The user scrolls the track with the wheel, the keyboard or a swipe.
userScroll(position) ==
    /\ position # scrollLeft
    /\ CardsBecome(setScrollLeft(CardsSelf, position))
    /\ UNCHANGED <<accordionVars, cardsMarkupVars, cardsConnected, dragOrigin>>

\* The carousel as its constructor leaves it, before it is inserted.
CardsConstructed ==
    /\ cardsConnected = FALSE
    /\ observer = "null"
    /\ cardVisible = NoCards(cardCount)
    /\ animateClass = FALSE
    /\ isDragging = FALSE /\ startX = 0 /\ scrollStart = 0
    /\ arrowScrolling = FALSE
    /\ prevHidden = FALSE /\ nextHidden = FALSE
    /\ scrollLeft = 0 /\ smoothTarget = NoTarget
    /\ scrollPending = FALSE /\ scrollEndDue = FALSE
    /\ cursor = "" /\ scrollSnapType = "" /\ pointerCaptured = FALSE
    /\ dragOrigin = [x |-> 0, offset |-> 0]

\* A page without a carousel.
NoCarousel ==
    /\ cardsClass = "none" /\ cardCount = 0 /\ prefersReducedMotion = FALSE
    /\ CardsConstructed

-----------------------------------------------------------------------------

\* The accordion as its constructor leaves it, before it is inserted.
AccordionConstructed ==
    /\ connected = FALSE /\ aborted = FALSE /\ listening = FALSE
    /\ activeIndex = 0
    /\ isTransitioning = FALSE
    /\ pendingTargetIndex = NoIndex
    /\ rowActive = None /\ ariaExpanded = None /\ mediaActive = None
    /\ styleTransitionNone = FALSE /\ rafPending = FALSE
    /\ videoPlaying = FALSE /\ videoSrc = Null /\ videoPaused = TRUE
    /\ playState = "none" /\ playTarget = NoIndex
    /\ microtasks = <<>>
    /\ lastEvent = [type |-> "constructed", index |-> NoIndex, from |-> NoIndex,
                    transitioning |-> FALSE]
    /\ plainConnected = FALSE /\ plainAborted = FALSE /\ plainListening = FALSE
    /\ plainActiveIndex = 0
    /\ plainRowActive = None /\ plainAriaExpanded = None /\ plainMediaActive = None

\* A page without an accordion.
NoAccordion ==
    /\ transitionsAttr = LayoutTransitions(0, "none")
    /\ productIdAttr = LayoutProductIds(0, "none")
    /\ hasVideo = FALSE
    /\ registered = "none"
    /\ innerWidth = Breakpoint
    /\ AccordionConstructed

\* A page with an accordion.
Init ==
    /\ \E q \in Rows, k \in Quirks :
          /\ transitionsAttr = LayoutTransitions(q, k)
          /\ productIdAttr = LayoutProductIds(q, k)
    /\ hasVideo \in BOOLEAN
    /\ registered \in {"video", "plain"}
    /\ innerWidth \in Widths
    /\ AccordionConstructed
    /\ NoCarousel

\* The payloads of row r that define no transition video.
NoVideoPayloads(r) ==
    {AbsentPayload, MalformedPayload, EmptyUrlPayload(r), JsonPayload(r, {})}

\* Both accordions on markup that defines no transition video.
InitPair ==
    /\ transitionsAttr \in {f \in [Rows -> UNION {NoVideoPayloads(r) : r \in Rows}] :
                               \A r \in Rows : f[r] \in NoVideoPayloads(r)}
    /\ productIdAttr = LayoutProductIds(0, "none")
    /\ hasVideo \in BOOLEAN
    /\ registered = "pair"
    /\ innerWidth \in Widths
    /\ AccordionConstructed
    /\ NoCarousel

\* A page with a card carousel.
InitCards ==
    /\ cardsClass \in {"viewportStep", "cardStep"}
    /\ cardCount \in {0, NumCards}
    /\ prefersReducedMotion \in BOOLEAN
    /\ CardsConstructed
    /\ NoAccordion

Next ==
    \/ connectedCallback
    \/ disconnectedCallback
    \/ \E targetIndex \in Rows : handleClick(targetIndex)
    \/ handleVideoEnded
    \/ handleVideoError
    \/ playRejected
    \/ playStarted
    \/ animationFrame
    \/ resize
    \/ plainConnectedCallback
    \/ plainDisconnectedCallback
    \/ \E index \in Rows : plainHandleClick(index)

Spec == Init /\ [][Next]_vars

\* The video accordion with a fair video element: a queued promise reaction
\* runs, a pending playback starts, and a video whose ended or error event
\* can be delivered again and again does end or fail.
VideoCompletes == handleVideoEnded \/ handleVideoError

LiveSpec ==
    /\ Spec
    /\ WF_vars(playRejected)
    /\ WF_vars(playStarted)
    /\ SF_vars(VideoCompletes)

\* The video accordion whose video element may also deliver ended and error
\* events while no transition is in flight.
NextStray ==
    \/ Next
    \/ strayVideoEnded
    \/ strayVideoError

SpecStray == Init /\ [][NextStray]_vars

NextPair ==
    \/ pairConnectedCallback
    \/ pairDisconnectedCallback
    \/ \E index \in Rows : pairHandleClick(index)
    \/ resize

SpecPair == InitPair /\ [][NextPair]_vars

NextCards ==
    \/ cardsConnectedCallback
    \/ cardsDisconnectedCallback
    \/ \E n \in 1 .. MaxEntries : \E entries \in [1 .. n -> BOOLEAN] :
          observerCallback(entries)
    \/ \E button \in Buttons, clientX \in ClientXs : onPointerDown(button, clientX)
    \/ \E clientX \in ClientXs : onPointerMove(clientX)
    \/ onPointerUp
    \/ onScroll
    \/ onScrollEnd
    \/ scrollPrev
    \/ scrollNext
    \/ smoothScrollStep
    \/ \E position \in Offsets : userScroll(position)

SpecCards == InitCards /\ [][NextCards]_vars

-----------------------------------------------------------------------------
(* Vocabulary of the properties.                                           *)

ActiveRows == {i \in Rows : rowActive[i]}

ActiveMedia == {i \in Rows : mediaActive[i]}

PlainActiveRows == {i \in Rows : plainRowActive[i]}

PlainActiveMedia == {i \in Rows : plainMediaActive[i]}

\* connectedCallback has run at least once.
Mounted == connected \/ aborted

PlainMounted == plainConnected \/ plainAborted

\* The markup defines no transition video from row a to row b.
NoVideoDefined(a, b) ==
    \/ a \notin Rows
    \/ transitionsAttr[a].kind # "json"
    \/ productIdAttr[b] = Null
    \/ productIdAttr[b] \notin DOMAIN transitionsAttr[a].map
    \/ transitionsAttr[a].map[productIdAttr[b]] = EmptyString

\* The video layer is hidden and reset, and no target is pending.
VideoCleared ==
    /\ ~isTransitioning
    /\ pendingTargetIndex = NoIndex
    /\ ~videoPlaying
    /\ hasVideo => (videoSrc = Null /\ videoPaused)

-----------------------------------------------------------------------------
(* The claims.                                                            *)

\* What evaluating a click on row t as a transition FROM row a gives.
EvaluatedFrom(a, t) ==
    IF t = a THEN VideoCleared' /\ ActiveMedia' = {a}
    ELSE IF hasVideo /\ ~NoVideoDefined(a, t)
        THEN /\ isTransitioning'
             /\ pendingTargetIndex' = t
             /\ videoPlaying'
             /\ videoSrc' = transitionsAttr[a].map[productIdAttr[t]]
        ELSE VideoCleared' /\ ActiveRows' = {t} /\ ActiveMedia' = {t}

\* C1: a row-header click (wide viewport) that arrives while a video
\* transition from row A to row B is in flight is evaluated as a transition
\* whose FROM row is the committed row A - the row whose media item is still
\* the active one - and not the half-completed target B: the video that may
\* start is the one A's transition map gives for the clicked row, and a click
\* on B itself is a click on a row that is not the active one.
C1_ClickEvaluatedFromCommittedRow ==
    [][\A a, t \in Rows :
          (/\ isTransitioning
           /\ ActiveMedia = {a}
           /\ innerWidth >= Breakpoint
           /\ handleClick(t))
          => EvaluatedFrom(a, t)]_vars

\* C2: after mount, whenever no video transition is in flight (and no callback
\* of the handler that just ran is still queued), media item i is active if
\* and only if row i is active.
C2_MediaMirrorsRowsWhenIdle ==
    (Mounted /\ ~isTransitioning /\ microtasks = <<>>)
        => (\A i \in Rows : mediaActive[i] = rowActive[i])


\* C3: after mount at most one row of either accordion carries the active
\* mark, aria-expanded follows the mark, and no row at all is active only in
\* the all-collapsed state (active index -1, no media item active), which is
\* entered only by a click on the active row with a viewport narrower than
\* the breakpoint.
C3_AtMostOneActiveRow ==
    /\ [](Mounted =>
            /\ Cardinality(ActiveRows) <= 1
            /\ ariaExpanded = rowActive
            /\ ActiveRows = {} =>
                  (activeIndex = NoIndex /\ ActiveMedia = {} /\ ~isTransitioning))
    /\ [](PlainMounted =>
            /\ Cardinality(PlainActiveRows) <= 1
            /\ plainAriaExpanded = plainRowActive
            /\ PlainActiveRows = {} =>
                  (plainActiveIndex = NoIndex /\ PlainActiveMedia = {}))
    /\ [][(ActiveRows # {} /\ ActiveRows' = {}) =>
            \E t \in Rows :
                handleClick(t) /\ rowActive[t] /\ innerWidth < Breakpoint]_vars
    /\ [][(PlainActiveRows # {} /\ PlainActiveRows' = {}) =>
            \E t \in Rows :
                plainHandleClick(t) /\ plainRowActive[t] /\ innerWidth < Breakpoint]_vars

\* The video accordion has been collapsed by a click on its active row.
C3_Witness ==
    /\ Mounted /\ ActiveRows = {} /\ activeIndex = NoIndex
    /\ lastEvent.type = "click" /\ lastEvent.index = lastEvent.from
    /\ innerWidth < Breakpoint

\* C4 as stated: in every settled state after mount exactly one media item is
\* active.
C4_ExactlyOneActiveMedia ==
    /\ (Mounted /\ ~isTransitioning /\ microtasks = <<>>)
           => Cardinality(ActiveMedia) = 1
    /\ PlainMounted => Cardinality(PlainActiveMedia) = 1

\* C4 amended: in every settled state after mount exactly one media item is
\* active, except when the accordion is all-collapsed (active index -1), and
\* then no media item is active.
C4_OneActiveMediaUnlessCollapsed ==
    /\ (Mounted /\ ~isTransitioning /\ microtasks = <<>>) =>
           IF activeIndex = NoIndex
               THEN ActiveMedia = {}
               ELSE Cardinality(ActiveMedia) = 1
    /\ PlainMounted =>
           IF plainActiveIndex = NoIndex
               THEN PlainActiveMedia = {}
               ELSE PlainActiveMedia = {plainActiveIndex}

\* A settled plain accordion that has been collapsed: no media item is active.
C4_Witness ==
    /\ PlainMounted /\ plainListening
    /\ plainActiveIndex = NoIndex /\ PlainActiveMedia = {}

\* C5: a click on the header of the row that carries the active mark, with a
\* viewport at least as wide as the breakpoint, changes nothing, whether or
\* not a video transition is in flight.
C5_ActiveRowClickWideChangesNothing ==
    /\ [][\A t \in Rows :
            (handleClick(t) /\ rowActive[t] /\ innerWidth >= Breakpoint)
            => UNCHANGED <<activeIndex, rowActive, ariaExpanded, mediaActive,
                           isTransitioning, pendingTargetIndex, videoPlaying>>]_vars
    /\ [][\A t \in Rows :
            (plainHandleClick(t) /\ plainRowActive[t] /\ innerWidth >= Breakpoint)
            => UNCHANGED <<plainActiveIndex, plainRowActive, plainAriaExpanded,
                           plainMediaActive>>]_vars

\* C6: a click on the header of the row that carries the active mark, with a
\* viewport narrower than the breakpoint, leaves no row active, every
\* aria-expanded false, no media item active, the active index -1 and no
\* transition in flight (video hidden and reset, pending target cleared).
C6_ActiveRowClickNarrowCollapses ==
    /\ [][\A t \in Rows :
            (handleClick(t) /\ rowActive[t] /\ innerWidth < Breakpoint)
            => (/\ ActiveRows' = {}
                /\ ariaExpanded' = None
                /\ ActiveMedia' = {}
                /\ activeIndex' = NoIndex
                /\ VideoCleared')]_vars
    /\ [][\A t \in Rows :
            (plainHandleClick(t) /\ plainRowActive[t] /\ innerWidth < Breakpoint)
            => (/\ PlainActiveRows' = {}
                /\ plainAriaExpanded' = None
                /\ PlainActiveMedia' = {}
                /\ plainActiveIndex' = NoIndex)]_vars

\* The collapsing click arrived while a video transition was in flight.
C6_Witness ==
    /\ lastEvent.type = "click" /\ lastEvent.transitioning
    /\ lastEvent.index = lastEvent.from
    /\ innerWidth < Breakpoint
    /\ activeIndex = NoIndex /\ ActiveRows = {}

\* C7: when a video element exists and the map of the active row A defines a
\* video for row B, a click on B loads exactly that URL, shows the video
\* layer, and B's media item is not active when the video starts nor while
\* the transition to B is in flight.  (Stated for the points at which no
\* callback of an earlier play request is queued.)
C7_VideoPlaysBeforeTargetMedia ==
    /\ [][\A a, b \in Rows :
            (/\ handleClick(b)
             /\ rowActive[a] /\ a # b
             /\ hasVideo /\ ~NoVideoDefined(a, b)
             /\ microtasks' = <<>>)
            => (/\ videoSrc' = transitionsAttr[a].map[productIdAttr[b]]
                /\ videoPlaying'
                /\ ~mediaActive'[b])]_vars
    /\ []((isTransitioning /\ microtasks = <<>>) => ~mediaActive[pendingTargetIndex])

\* C8: when the markup defines no transition video from the current row to
\* the clicked row (no map, malformed map, no entry, empty entry, target
\* without product identifier, or no current row), a click on another row
\* ends with that row and its media item the only active ones, no transition
\* in flight and the video layer hidden and without source.
C8_NoVideoMeansCrossfade ==
    [][\A t \in Rows :
          (handleClick(t) /\ t # activeIndex /\ NoVideoDefined(activeIndex, t))
          => (/\ activeIndex' = t
              /\ ActiveRows' = {t}
              /\ ActiveMedia' = {t}
              /\ VideoCleared')]_vars

\* A click crossfaded away from a row whose transition payload is malformed.
C8_Witness ==
    /\ lastEvent.type = "click" /\ lastEvent.from \in Rows
    /\ lastEvent.from # lastEvent.index
    /\ transitionsAttr[lastEvent.from].kind = "malformed"
    /\ hasVideo
    /\ activeIndex = lastEvent.index /\ ActiveMedia = {lastEvent.index}
    /\ ~videoPlaying

\* What both failure paths must leave behind for the target `to`.
CrossfadedTo(to) ==
    /\ VideoCleared'
    /\ activeIndex' = to
    /\ ActiveRows' = {to}
    /\ ActiveMedia' = {to}

\* C9: when, during a transition to row `to`, the video's error event fires
\* or the transition's play request is rejected, the transition is cancelled
\* and row `to` and media item `to` end up the only active ones.
C9_VideoFailureFallsBackToCrossfade ==
    /\ [][(isTransitioning /\ handleVideoError)
            => CrossfadedTo(pendingTargetIndex)]_vars
    /\ [][(isTransitioning /\ playRejected /\ Head(microtasks) = pendingTargetIndex)
            => CrossfadedTo(pendingTargetIndex)]_vars

\* The play request of the transition in flight was rejected.
C9_Witness ==
    /\ lastEvent.type = "catch" /\ lastEvent.transitioning
    /\ lastEvent.index = lastEvent.from
    /\ ~isTransitioning
    /\ ActiveRows = {lastEvent.index} /\ ActiveMedia = {lastEvent.index}

\* C10: when the video's ended event fires during a transition to row `to`,
\* the accordion is idle afterwards, with active index `to`, row `to` and
\* media item `to` the only active ones, no pending target, and the video
\* layer hidden and reset.
C10_EndedCompletesTransition ==
    [][(isTransitioning /\ handleVideoEnded)
          => CrossfadedTo(pendingTargetIndex)]_vars

\* A transition from row 0 to another row has run to its end.
C10_Witness ==
    /\ lastEvent.type = "ended" /\ lastEvent.transitioning
    /\ lastEvent.index # 0
    /\ ~isTransitioning /\ activeIndex = lastEvent.index
    /\ ActiveRows = {lastEvent.index} /\ ActiveMedia = {lastEvent.index}

\* C11: the accordion activates every time it is inserted into the document:
\* whenever it is in the document, also after a teardown and a re-insertion,
\* its row-header listeners are alive, so a click is handled; and after a
\* teardown, before the re-insertion, no click and no video event is handled.
C11_ActivatesOnEveryInsertion ==
    /\ [](connected => listening)
    /\ [](plainConnected => plainListening)
    /\ [][~connected => (/\ \A t \in Rows : ~handleClick(t)
                         /\ ~handleVideoEnded
                         /\ ~handleVideoError)]_vars
    /\ [][~plainConnected => \A t \in Rows : ~plainHandleClick(t)]_vars

\* What C12 says of the events that are not part of a drag: a pointer-move
\* while no drag is active and a pointer-down with a non-primary button
\* leave the scroll offset and the drag state unchanged.  Stated as: a step
\* that changes one of them is neither of these events.
NonDragEventsChangeNothing ==
    \/ UNCHANGED <<scrollLeft, isDragging, startX, scrollStart>>
    \/ /\ \A x \in ClientXs : ~(~isDragging /\ onPointerMove(x))
       /\ \A b \in Buttons \ {PrimaryButton}, x \in ClientXs : ~onPointerDown(b, x)

\* C12: after a primary-button pointer-down at cursor X0 with the track at
\* offset S0, every pointer-move to cursor X during the drag sets the scroll
\* offset to exactly S0 - (X - X0); events that are not part of a drag
\* change neither the offset nor the drag state.
C12_DragSetsExactOffset ==
    /\ [][\A x \in ClientXs :
             (isDragging /\ cardsConnected /\ onPointerMove(x))
                => scrollLeft' = dragOrigin.offset - (x - dragOrigin.x)]_vars
    /\ [][NonDragEventsChangeNothing]_vars

\* C12, amended: the offset a pointer-move sets during a drag is
\* S0 - (X - X0) clamped to the scrollable range of the track.
C12_DragSetsClampedOffset ==
    /\ [][\A x \in ClientXs :
             (isDragging /\ cardsConnected /\ onPointerMove(x))
                => scrollLeft' =
                     ClampOffset(dragOrigin.offset - (x - dragOrigin.x))]_vars
    /\ [][NonDragEventsChangeNothing]_vars

\* A drag that started away from the left end has moved the track.
C12_Witness ==
    /\ isDragging /\ scrollPending /\ smoothTarget = NoTarget
    /\ dragOrigin.offset > 0 /\ dragOrigin.x > 0
    /\ scrollLeft > dragOrigin.offset

\* No scroll is in flight and every scroll and scrollend event the track
\* owes has been dispatched.
Settled == smoothTarget = NoTarget /\ ~scrollPending /\ ~scrollEndDue

\* C13: in every settled state of the mounted carousel that toggles its
\* arrows, the previous arrow is hidden iff the scroll offset is <= 1 and
\* the next arrow is hidden iff offset + visible width >= scrollable
\* width - 1.
C13_ArrowsMatchOffsetWhenSettled ==
    (cardsClass = "viewportStep" /\ cardsConnected /\ Settled)
       => /\ prevHidden <=> (scrollLeft <= 1)
          /\ nextHidden <=> (scrollLeft + ClientWidth >= ScrollWidth - 1)

AllVisible == \A k \in DOMAIN cardVisible : cardVisible[k]

AllHidden == \A k \in DOMAIN cardVisible : ~cardVisible[k]

\* What C14 says of the reveal itself: the cards are all hidden or all
\* visible, and no card goes back to hidden; with the motion-reduction
\* preference set the mounted carousel shows all cards and never has an
\* observer; otherwise the cards stay hidden until an observer callback
\* with an intersecting entry, which shows them all and drops the observer.
RevealIsOneShot ==
    /\ [](AllVisible \/ AllHidden)
    /\ [][\A k \in DOMAIN cardVisible : cardVisible[k] => cardVisible'[k]]_vars
    /\ [](prefersReducedMotion
             => (observer = "null" /\ (cardsConnected => AllVisible)))
    /\ [][(~prefersReducedMotion /\ ~AllVisible /\ AllVisible')
             => \E n \in 1 .. MaxEntries : \E entries \in [1 .. n -> BOOLEAN] :
                   observerCallback(entries)]_vars
    /\ [][\A n \in 1 .. MaxEntries : \A entries \in [1 .. n -> BOOLEAN] :
             (/\ observer = "observing"
              /\ \E i \in 1 .. n : entries[i]
              /\ observerCallback(entries))
                => (AllVisible' /\ observer' = "null")]_vars

\* C14: the reveal is one-shot, and in every reachable state an observer
\* exists only while the cards are still hidden.
C14_ObserverOnlyWhileHidden ==
    /\ RevealIsOneShot
    /\ [](observer = "observing" => ~AllVisible)

\* C14, amended: the reveal is one-shot, and an observer exists only while
\* the carousel is in the document, has cards, and the motion-reduction
\* preference is not set.
C14_ObserverOnlyWhileMounted ==
    /\ RevealIsOneShot
    /\ [](observer = "observing"
             => (cardsConnected /\ cardCount > 0 /\ ~prefersReducedMotion
                 /\ animateClass))

\* The observer has reported an intersection and the cards are revealed.
C14_Witness ==
    /\ cardsConnected /\ cardCount > 0 /\ ~prefersReducedMotion
    /\ animateClass /\ observer = "null" /\ AllVisible

\* C15: throughout a transition from row `from` to row `to` the active
\* row is `to` and the only active media item is that of `from`, the row the
\* click that started the transition was evaluated from; and the click leaves
\* the active media items as they were.
C15_FromMediaBehindVideo ==
    /\ [][\A t \in Rows :
             (handleClick(t) /\ isTransitioning')
                => (/\ ActiveRows' = {t} /\ ariaExpanded' = Only(t)
                    /\ mediaActive' = mediaActive)]_vars
    /\ []((isTransitioning /\ Idle) => ActiveRows = {pendingTargetIndex})
    /\ []((isTransitioning /\ Idle /\ lastEvent.type = "click")
             => ActiveMedia = {lastEvent.from})

\* C17: the transitioning state is left only by the video's ended event,
\* its error event, the rejection of a play request, or a click on a row
\* header, so without them it lasts forever; and with a fair video element
\* every transitioning state of an accordion that still has its listeners
\* returns to idle, unless the accordion is torn down first.
C17_TransitionLeftOnlyByEventOrClick ==
    /\ [][(isTransitioning /\ ~isTransitioning')
             => (\/ handleVideoEnded
                 \/ handleVideoError
                 \/ playRejected
                 \/ \E t \in Rows : handleClick(t))]_vars
    /\ (isTransitioning /\ listening) ~> (~isTransitioning \/ ~listening)

\* A transition that was left by the video's ended event.
C17_Witness ==
    /\ lastEvent.type = "ended" /\ lastEvent.transitioning
    /\ listening /\ ~isTransitioning /\ pendingTargetIndex = NoIndex
    /\ activeIndex = lastEvent.index

\* C19: in every reachable state of the video accordion the video layer is
\* shown (playing class set, a source loaded) exactly when a transition is
\* in flight, and the pending target index is -1 exactly when none is; the
\* one pending target is the target of the one transition in flight.
C19_VideoLayerIffTransitioning ==
    /\ videoPlaying <=> isTransitioning
    /\ (videoSrc # Null) <=> isTransitioning
    /\ (pendingTargetIndex = NoIndex) <=> ~isTransitioning
    /\ isTransitioning => (hasVideo /\ pendingTargetIndex \in Rows)

\* A second transition has replaced the first one while its video was
\* playing: one pending target, one source.
C19_Witness ==
    /\ isTransitioning /\ videoPlaying /\ playState = "pending"
    /\ lastEvent.type = "click" /\ lastEvent.transitioning
    /\ pendingTargetIndex = lastEvent.index
    /\ videoSrc = VideoUrl(lastEvent.from, ProductIdOf(lastEvent.index))

\* C16: the guard is set by scrollPrev and scrollNext and cleared by the
\* scrollend handler; while it is set, a scroll event leaves the arrows as
\* they are; and it is set only while an arrow-triggered scroll is in
\* flight or its scroll and scrollend events are still owed, so that it is
\* never left set with nothing to clear it.
C16_GuardOnlyWhileArrowScrollInFlight ==
    /\ [][(cardsClass = "viewportStep" /\ (scrollPrev \/ scrollNext))
             => arrowScrolling']_vars
    /\ [][(ScrollListening /\ onScrollEnd) => ~arrowScrolling']_vars
    /\ [][(arrowScrolling /\ onScroll) => UNCHANGED <<prevHidden, nextHidden>>]_vars
    /\ [](arrowScrolling => ~Settled)

\* The click handled last cancelled a transition whose play request was
\* still pending: the catch callback of that request is at the head of the
\* microtask queue.  (A single queued callback in a transitioning state
\* with no play request pending belongs to the transition the click has
\* just started, whose play() was refused.)
CancelledCatchQueued ==
    /\ lastEvent.type = "click" /\ lastEvent.transitioning
    /\ microtasks # <<>>
    /\ ~(Len(microtasks) = 1 /\ isTransitioning /\ playState = "none")

\* C20: once a click has cancelled a transition, the rejection of the
\* cancelled transition's play request changes nothing: active index, rows,
\* media and transition state stay as the click left them.
C20_CancelledCallbackChangesNothing ==
    [][(CancelledCatchQueued /\ playRejected)
          => UNCHANGED <<activeIndex, rowActive, ariaExpanded, mediaActive,
                         isTransitioning, pendingTargetIndex, videoPlaying,
                         videoSrc>>]_vars

\* C18: where the markup defines no transition video, the plain accordion
\* and the video accordion, given the same clicks and viewport widths from
\* the mount on, have the same active index, the same active rows (class and
\* aria-expanded) and the same active media items after every step.
C18_PlainEquivalentWithoutVideos ==
    (\A a, b \in Rows : NoVideoDefined(a, b))
       => /\ activeIndex = plainActiveIndex
          /\ rowActive = plainRowActive
          /\ ariaExpanded = plainAriaExpanded
          /\ mediaActive = plainMediaActive
          /\ ~isTransitioning

\* Both accordions have been collapsed on a narrow viewport and then
\* re-opened on another row by a click.
C18_Witness ==
    /\ registered = "pair" /\ hasVideo
    /\ lastEvent.type = "click" /\ lastEvent.from = NoIndex
    /\ lastEvent.index # 0
    /\ activeIndex = lastEvent.index /\ plainActiveIndex = lastEvent.index
    /\ ActiveMedia = {lastEvent.index} /\ PlainActiveMedia = {lastEvent.index}

\* C21: an ended event handled while the accordion is idle (no transition in
\* flight, pending target -1) leaves the active index, the row classes,
\* aria-expanded and the media classes as they were, and so does an error
\* event handled while idle.
C21_EndedWhileIdleChangesNothing ==
    /\ [][(~isTransitioning /\ pendingTargetIndex = NoIndex /\ strayVideoError)
             => UNCHANGED <<activeIndex, rowActive, ariaExpanded, mediaActive>>]_vars
    /\ [][(~isTransitioning /\ pendingTargetIndex = NoIndex /\ strayVideoEnded)
             => UNCHANGED <<activeIndex, rowActive, ariaExpanded, mediaActive>>]_vars

====
